---- MODULE Spec2Model ----
(***************************************************************************)
(* A model of pymsync (msync.py): the main synchronisation loop that plans *)
(* rounds of pairwise rsync copies, the CommandProcess workers that pull   *)
(* CommandTask objects from a JoinableQueue, and the computation of the    *)
(* source and destination path strings.                                    *)
(***************************************************************************)
EXTENDS Integers, Sequences, FiniteSets, TLC

VARIABLES
    hostTotal,      \* len(destinations)
    processTotal,   \* multiprocessing.cpu_count() * 2
    hostsCopiedTo,  \* counter of hosts "copied to"
    i,              \* number of completed iterations
    copies,         \* step size of the current iteration
    remaining,      \* hostTotal - hostsCopiedTo at the top of the iteration
    h,              \* index of the for loop over range(0, remaining)
    j,              \* index of the join loop over processes
    mainPc,         \* position of the main program
    tasks,          \* the JoinableQueue: FIFO of CommandTask / None entries
    unfinished,     \* the JoinableQueue's count of unacknowledged entries
    processes,      \* the CommandProcess objects of the current iteration
    exitStatus,     \* exit status of the main process, -1 while it runs
    sched,          \* history: every CommandTask created, in creation order
    deq,            \* history: deq[k] = number of times task k was dequeued
    runs,           \* history: runs[k] = number of times task k was run
    rtns,           \* history: rtns[k] = return code of task k, -1 if none
    pills,          \* history: number of None entries put in this iteration
    argPath,        \* args.path
    cwd,            \* the current working directory used by os.path.abspath
    sourcePath,     \* sourcePath
    destPath,       \* destPath
    pathPc          \* position of the path computation

vars == <<hostTotal, processTotal, hostsCopiedTo, i, copies, remaining, h, j,
          mainPc, tasks, unfinished, processes, exitStatus, sched, deq, runs,
          rtns, pills, argPath, cwd, sourcePath, destPath, pathPc>>

loopVars == <<hostTotal, processTotal, hostsCopiedTo, i, copies, remaining, h,
              j, mainPc, tasks, unfinished, processes, exitStatus, sched, deq,
              runs, rtns, pills>>

pathVars == <<argPath, cwd, sourcePath, destPath, pathPc>>

----------------------------------------------------------------------------
(* Bounds of the model. *)

MaxHosts == 5       \* largest roster (source included)
MaxCpu == 1         \* largest multiprocessing.cpu_count()
MaxRounds == 4      \* cap on the iteration counter i
MaxPathLen == 5     \* longest args.path, in characters

ReturnCodes == {0, 1}   \* return codes of the external command

----------------------------------------------------------------------------
(* Helpers. *)

RECURSIVE Pow2(_)
Pow2(n) == IF n = 0 THEN 1 ELSE 2 * Pow2(n - 1)

\* the queue's sentinel entry (None) and a CommandTask entry
Pill == [kind |-> "None", id |-> 0]
Task(k) == [kind |-> "task", id |-> k]

\* a fresh CommandProcess: self.__ok = True, waiting in taskQueue.get()
NewProcess == [pc |-> "get", ok |-> TRUE, task |-> 0]

----------------------------------------------------------------------------
(* The planner's arithmetic. *)

\* hostsCopiedTo = 1
InitialCopied == 1

\* the clamp with its comparison reversed
ClampCopiesFlipped(c, r) == IF c < r THEN r ELSE c

\* if copies > remaining: copies = remaining
ClampCopies(c, r) == IF c > r THEN r ELSE c

\* the loop taken over the hosts copied to so far
LoopBoundCopied(r, total) == total - r

\* the loop one iteration short
LoopBoundShort(r, total) == r - 1

\* for h in range(0, remaining)
LoopBound(r, total) == r

\* the break test taken one index early
BreakCondOff(hh, c, total) == hh + c + 1 >= total

\* if h + copies >= hostTotal: break
BreakCond(hh, c, total) == hh + c >= total

\* the process test with <= for <
StartsProcessInclusive(hh, total) == hh <= total

\* if h < processTotal: a new CommandProcess is created and started
StartsProcess(hh, total) == hh < total

\* every copy run by the first host of the roster
SrcIndexAlwaysFirst(hh) == 0

\* destinations[h], the host that runs the copy
SrcIndex(hh) == hh

\* the destination index taken one past h + copies
DestIndexPastEnd(hh, c) == hh + c + 1

\* the destination index without the loop index
DestIndexNoOffset(hh, c) == c

\* hostToAdd = destinations[h + copies]
DestIndex(hh, c) == hh + c

\* the power taken with the iteration count before its increment
NextCopiesStale(n) == Pow2(n - 1)

\* copies = 2**i
NextCopies(n) == Pow2(n)

----------------------------------------------------------------------------
(* The main program's sync loop. *)

\* while hostsCopiedTo < hostTotal: new queue, no processes, remaining, clamp
\* (i < MaxRounds only caps the counter i; the loop itself has no such test)
LoopHead ==
    /\ mainPc = "while"
    /\ hostsCopiedTo < hostTotal
    /\ i < MaxRounds
    /\ tasks' = << >>
    /\ unfinished' = 0
    /\ processes' = << >>
    /\ remaining' = hostTotal - hostsCopiedTo
    /\ copies' = ClampCopies(copies, hostTotal - hostsCopiedTo)
    /\ h' = 0
    /\ mainPc' = "for"
    /\ UNCHANGED <<hostTotal, processTotal, hostsCopiedTo, i, j, exitStatus,
                   sched, deq, runs, rtns>>
    /\ pills' = 0
    /\ UNCHANGED pathVars

\* one iteration of the for loop: maybe start a process, create and put a task
ForStep ==
    /\ mainPc = "for"
    /\ h < LoopBound(remaining, hostTotal)
    /\ ~ BreakCond(h, copies, hostTotal)
    /\ processes' = IF StartsProcess(h, processTotal)
                    THEN Append(processes, NewProcess)
                    ELSE processes
    /\ IF DestIndex(h, copies) >= hostTotal
       THEN \* destinations[h + copies] raises IndexError
            /\ mainPc' = "IndexError"
            /\ exitStatus' = 1
            /\ UNCHANGED <<hostsCopiedTo, h, tasks, unfinished, sched, deq,
                           runs, rtns>>
       ELSE /\ hostsCopiedTo' = hostsCopiedTo + 1
            /\ sched' = Append(sched, [round |-> i + 1, src |-> SrcIndex(h),
                                       dst |-> DestIndex(h, copies),
                                       step |-> copies])
            /\ deq' = Append(deq, 0)
            /\ runs' = Append(runs, 0)
            /\ rtns' = Append(rtns, -1)
            /\ tasks' = Append(tasks, Task(Len(sched) + 1))
            /\ unfinished' = unfinished + 1
            /\ h' = h + 1
            /\ UNCHANGED <<mainPc, exitStatus>>
    /\ UNCHANGED <<hostTotal, processTotal, i, copies, remaining, j>>
    /\ UNCHANGED pills
    /\ UNCHANGED pathVars

\* the for loop ends: range exhausted or break
ForEnd ==
    /\ mainPc = "for"
    /\ \/ h >= LoopBound(remaining, hostTotal)
       \/ BreakCond(h, copies, hostTotal)
    /\ mainPc' = "pills"
    /\ j' = 0
    /\ UNCHANGED <<hostTotal, processTotal, hostsCopiedTo, i, copies,
                   remaining, h, tasks, unfinished, processes, exitStatus,
                   sched, deq, runs, rtns>>
    /\ UNCHANGED pills
    /\ UNCHANGED pathVars

\* a single None entry for all the processes
PillCountOne(procs) == IF procs = << >> THEN 0 ELSE 1

\* one None entry fewer than there are processes
PillCountShort(procs) == Len(procs) - 1

\* the number of None entries put: one for each p in processes
PillCount(procs) == Len(procs)

\* for p in processes: tasks.put(None)
PutPill ==
    /\ mainPc = "pills"
    /\ j < PillCount(processes)
    /\ tasks' = Append(tasks, Pill)
    /\ unfinished' = unfinished + 1
    /\ j' = j + 1
    /\ UNCHANGED <<hostTotal, processTotal, hostsCopiedTo, i, copies,
                   remaining, h, mainPc, processes, exitStatus, sched, deq,
                   runs, rtns>>
    /\ pills' = pills + 1
    /\ UNCHANGED pathVars

PillsEnd ==
    /\ mainPc = "pills"
    /\ j >= PillCount(processes)
    /\ mainPc' = "join"
    /\ j' = 0
    /\ UNCHANGED <<hostTotal, processTotal, hostsCopiedTo, i, copies,
                   remaining, h, tasks, unfinished, processes, exitStatus,
                   sched, deq, runs, rtns>>
    /\ UNCHANGED pills
    /\ UNCHANGED pathVars

\* a join that returns without waiting for the process
TerminatedNoWait(p) == TRUE

\* a process has terminated: its run() returned or raised
Terminated(p) == p.pc \in {"exited", "crashed"}

\* for p in processes: p.join()
Join ==
    /\ mainPc = "join"
    /\ j < Len(processes)
    /\ Terminated(processes[j + 1])
    /\ j' = j + 1
    /\ UNCHANGED <<hostTotal, processTotal, hostsCopiedTo, i, copies,
                   remaining, h, mainPc, tasks, unfinished, processes,
                   exitStatus, sched, deq, runs, rtns>>
    /\ UNCHANGED pills
    /\ UNCHANGED pathVars

\* i += 1; copies = 2**i
EndRound ==
    /\ mainPc = "join"
    /\ j >= Len(processes)
    /\ i' = i + 1
    /\ copies' = NextCopies(i + 1)
    /\ mainPc' = "while"
    /\ UNCHANGED <<hostTotal, processTotal, hostsCopiedTo, remaining, h, j,
                   tasks, unfinished, processes, exitStatus, sched, deq, runs,
                   rtns>>
    /\ UNCHANGED pills
    /\ UNCHANGED pathVars

\* the loop condition is false: logging.info("done"), the process exits 0
Finish ==
    /\ mainPc = "while"
    /\ ~ (hostsCopiedTo < hostTotal)
    /\ mainPc' = "done"
    /\ exitStatus' = 0
    /\ UNCHANGED <<hostTotal, processTotal, hostsCopiedTo, i, copies,
                   remaining, h, j, tasks, unfinished, processes, sched, deq,
                   runs, rtns>>
    /\ UNCHANGED pills
    /\ UNCHANGED pathVars

----------------------------------------------------------------------------
(* CommandProcess.run *)

\* task = self.__taskQueue.get(); the poison pill; the skip when not ok
WorkerGet(w) ==
    /\ w \in 1..Len(processes)
    /\ processes[w].pc = "get"
    /\ tasks # << >>
    /\ tasks' = Tail(tasks)
    /\ LET t == Head(tasks) IN
       IF t.kind = "None"
       THEN /\ unfinished' = unfinished - 1
            /\ processes' = [processes EXCEPT ![w].pc = "exited"]
            /\ UNCHANGED deq
       ELSE /\ deq' = [deq EXCEPT ![t.id] = @ + 1]
            /\ IF processes[w].ok
               THEN /\ processes' = [processes EXCEPT ![w].pc = "run",
                                                      ![w].task = t.id]
                    /\ UNCHANGED unfinished
               ELSE /\ unfinished' = unfinished - 1
                    /\ UNCHANGED processes
    /\ UNCHANGED <<hostTotal, processTotal, hostsCopiedTo, i, copies,
                   remaining, h, j, mainPc, exitStatus, sched, runs, rtns>>
    /\ UNCHANGED pills
    /\ UNCHANGED pathVars

\* what the worker does with a nonzero return code: the logging.error call
\* formats self.__command, an attribute CommandProcess does not have, so the
\* AttributeError ends run() before self.__ok = False and task_done()
OnFailure(p) == [p EXCEPT !.pc = "crashed"]

\* rtn = task.run(); then task_done() or the failure path
WorkerRun(w) ==
    /\ w \in 1..Len(processes)
    /\ processes[w].pc = "run"
    /\ \E rtn \in ReturnCodes :
         LET k == processes[w].task IN
         /\ runs' = [runs EXCEPT ![k] = @ + 1]
         /\ rtns' = [rtns EXCEPT ![k] = rtn]
         /\ IF rtn # 0
            THEN /\ processes' = [processes EXCEPT ![w] = OnFailure(@)]
                 /\ unfinished' = IF OnFailure(processes[w]).pc = "crashed"
                                  THEN unfinished
                                  ELSE unfinished - 1
            ELSE /\ processes' = [processes EXCEPT ![w].pc = "get",
                                                   ![w].task = 0]
                 /\ unfinished' = unfinished - 1
    /\ UNCHANGED <<hostTotal, processTotal, hostsCopiedTo, i, copies,
                   remaining, h, j, mainPc, tasks, exitStatus, sched, deq>>
    /\ UNCHANGED pills
    /\ UNCHANGED pathVars

----------------------------------------------------------------------------
(* The specification of the sync loop. *)

Init ==
    /\ hostTotal \in 1..MaxHosts
    /\ processTotal \in {2 * c : c \in 1..MaxCpu}
    /\ hostsCopiedTo = InitialCopied
    /\ i = 0
    /\ copies = 1
    /\ remaining = 0
    /\ h = 0
    /\ j = 0
    /\ mainPc = "while"
    /\ tasks = << >>
    /\ unfinished = 0
    /\ processes = << >>
    /\ exitStatus = -1
    /\ sched = << >>
    /\ deq = << >>
    /\ runs = << >>
    /\ rtns = << >>
    /\ pills = 0
    /\ argPath = << "/", "a" >>
    /\ cwd = << "/" >>
    /\ sourcePath = << "/", "a" >>
    /\ destPath = << "/", "a" >>
    /\ pathPc = "done"

Next ==
    \/ LoopHead
    \/ ForStep
    \/ ForEnd
    \/ PutPill
    \/ PillsEnd
    \/ Join
    \/ EndRound
    \/ Finish
    \/ \E w \in 1..(2 * MaxCpu) : WorkerGet(w)
    \/ \E w \in 1..(2 * MaxCpu) : WorkerRun(w)

Spec == Init /\ [][Next]_vars

----------------------------------------------------------------------------
(* Properties of the sync loop. *)

\* the smallest k with 2^k >= n
CeilLog2(n) == CHOOSE k \in 0..n : Pow2(k) >= n /\ \A m \in 0..(k - 1) : Pow2(m) < n

\* every pairwise copy that has returned so far returned status 0
AllSucceeded == \A k \in DOMAIN rtns : rtns[k] \in {-1, 0}

\* some pairwise copy returned a nonzero status
SomeFailed == \E k \in DOMAIN rtns : rtns[k] > 0

\* the while loop has ended
LoopEnded == mainPc = "done" \/ (mainPc = "while" /\ ~ (hostsCopiedTo < hostTotal))

\* the pairs scheduled in round r, as <<source, destination>>
PairsOf(r) == {<<sched[k].src, sched[k].dst>> : k \in {m \in DOMAIN sched : sched[m].round = r}}

\* C1: for every roster of size N >= 1, when every pairwise copy returns
\* status 0 the sync loop executes exactly ceil(log2(N)) rounds before it
\* reaches 'done' (0 rounds for N = 1).
C1_RoundsAreCeilLog2 ==
    (mainPc = "done" /\ AllSucceeded) => i = CeilLog2(hostTotal)

\* C2: if any pairwise copy returns a nonzero status the program reports
\* overall failure: it ends with a nonzero exit status and never reaches the
\* 'done' / exit-0 outcome.
C2_FailureIsReported ==
    SomeFailed => (mainPc # "done" /\ exitStatus # 0)

\* C3: every host used as the source of a scheduled pair is the original
\* source (index 0) or was the destination of a copy that completed
\* successfully in an earlier round; no host is the source of a pair in the
\* round in which it is a destination.
C3_SourcesAlreadySynced ==
    \A k \in DOMAIN sched :
        \/ sched[k].src = 0
        \/ \E m \in DOMAIN sched :
              /\ sched[m].dst = sched[k].src
              /\ sched[m].round < sched[k].round

\* C4: when every pairwise copy succeeds, at the moment the loop ends every
\* roster index 1..N-1 has been the destination of exactly one executed copy
\* and hostsCopiedTo equals the number of distinct hosts synced.
C4_AllDestinationsCoveredOnce ==
    (LoopEnded /\ AllSucceeded) =>
        /\ \A d \in 1..(hostTotal - 1) :
              /\ Cardinality({k \in DOMAIN sched : sched[k].dst = d}) = 1
              /\ \A k \in DOMAIN sched : sched[k].dst = d => runs[k] = 1
        /\ hostsCopiedTo =
              Cardinality({0} \cup {sched[k].dst : k \in {m \in DOMAIN sched : runs[m] = 1}})

C4_Witness ==
    /\ mainPc = "done"
    /\ AllSucceeded
    /\ hostTotal >= 4
    /\ \A k \in DOMAIN sched : runs[k] = 1 /\ rtns[k] = 0

\* C5: after a round in which at least one pairwise copy returned a nonzero
\* status, no further round is planned or dispatched: no CommandTask is
\* created or enqueued after that round's join.
C5_NoRoundAfterFailedRound ==
    \A k \in DOMAIN sched :
        rtns[k] > 0 =>
            /\ \A m \in DOMAIN sched : sched[m].round <= sched[k].round
            /\ mainPc \in {"for", "pills", "join"} => i + 1 <= sched[k].round

C5_Witness ==
    /\ mainPc = "done"
    /\ SomeFailed
    /\ hostTotal >= 3

\* C6: each scheduled pair has source index h and destination index
\* h + stepSize with h + stepSize < N; the planner never reads the roster at
\* an index >= its length.
C6_DestinationInRange ==
    /\ mainPc # "IndexError"
    /\ \A k \in DOMAIN sched :
          /\ sched[k].dst = sched[k].src + sched[k].step
          /\ sched[k].dst < hostTotal

C6_Witness ==
    /\ hostTotal >= 3
    /\ mainPc = "pills"
    /\ \E k \in DOMAIN sched : sched[k].dst = hostTotal - 1

\* C7: the destination indices scheduled during a run are pairwise distinct
\* and distinct from index 0: no host is the destination of more than one
\* copy.
C7_DestinationsDistinct ==
    \A k \in DOMAIN sched :
        /\ sched[k].dst # 0
        /\ \A m \in DOMAIN sched : m # k => sched[m].dst # sched[k].dst

C7_Witness ==
    /\ mainPc = "done"
    /\ Len(sched) >= 3

\* C8: for a roster of 5 hosts with all copies succeeding the rounds are
\* exactly round 1 = {h0->h1}, round 2 = {h0->h2, h1->h3}, round 3 = {h0->h4},
\* and the run ends after 3 rounds with hostsCopiedTo = 5.
C8_FiveHostScenario ==
    (hostTotal = 5 /\ mainPc = "done" /\ AllSucceeded) =>
        /\ i = 3
        /\ hostsCopiedTo = 5
        /\ PairsOf(1) = {<<0, 1>>}
        /\ PairsOf(2) = {<<0, 2>>, <<1, 3>>}
        /\ PairsOf(3) = {<<0, 4>>}

\* C9: every CommandTask enqueued in a round is dequeued by exactly one
\* worker and, when no copy fails, run exactly once before the round's join
\* returns; no unit is run twice or left in the queue.
C9_EveryTaskConsumedOnce ==
    /\ \A k \in DOMAIN sched : deq[k] <= 1 /\ runs[k] <= 1
    /\ mainPc \in {"while", "done"} =>
          /\ \A k \in DOMAIN sched : deq[k] = 1
          /\ AllSucceeded => \A k \in DOMAIN sched : runs[k] = 1
          /\ \A n \in DOMAIN tasks : tasks[n].kind # "task"

\* the part of C9 that concerns runs without a failed copy
C9_ConsumedOnceWhenNoFailure ==
    /\ \A k \in DOMAIN sched : deq[k] <= 1 /\ runs[k] <= 1
    /\ (mainPc \in {"while", "done"} /\ AllSucceeded) =>
          /\ \A k \in DOMAIN sched : deq[k] = 1 /\ runs[k] = 1
          /\ \A n \in DOMAIN tasks : tasks[n].kind # "task"

----------------------------------------------------------------------------
(* Strings are sequences of one-character strings. *)

Alphabet == {"/", "a", "b", "*", ".", " "}

Paths == UNION {[1..n -> Alphabet] : n \in 0..MaxPathLen}

StartsWith(s, pre) == Len(s) >= Len(pre) /\ SubSeq(s, 1, Len(pre)) = pre

EndsWith(s, suf) ==
    Len(s) >= Len(suf) /\ SubSeq(s, Len(s) - Len(suf) + 1, Len(s)) = suf

\* s[:-1]
DropLast(s) == SubSeq(s, 1, Len(s) - 1)

\* str.strip()
RECURSIVE LStrip(_)
LStrip(s) == IF s # << >> /\ Head(s) = " " THEN LStrip(Tail(s)) ELSE s

RECURSIVE RStrip(_, _)
RStrip(s, ch) ==
    IF s # << >> /\ s[Len(s)] = ch THEN RStrip(DropLast(s), ch) ELSE s

Strip(s) == RStrip(LStrip(s), " ")

\* str.split('/')
RECURSIVE SplitSlash(_)
SplitSlash(s) ==
    IF s = << >> THEN << << >> >>
    ELSE LET rest == SplitSlash(Tail(s)) IN
         IF Head(s) = "/" THEN << << >> >> \o rest
         ELSE << << Head(s) >> \o Head(rest) >> \o Tail(rest)

\* '/'.join(comps)
RECURSIVE JoinSlash(_)
JoinSlash(comps) ==
    IF comps = << >> THEN << >>
    ELSE IF Len(comps) = 1 THEN Head(comps)
    ELSE Head(comps) \o << "/" >> \o JoinSlash(Tail(comps))

DotDot == << ".", "." >>

\* the component loop of posixpath.normpath
RECURSIVE NormFold(_, _, _)
NormFold(comps, acc, initial) ==
    IF comps = << >> THEN acc
    ELSE LET c == Head(comps) IN
         IF c = << >> \/ c = << "." >>
         THEN NormFold(Tail(comps), acc, initial)
         ELSE IF \/ c # DotDot
                 \/ (initial = 0 /\ acc = << >>)
                 \/ (acc # << >> /\ acc[Len(acc)] = DotDot)
         THEN NormFold(Tail(comps), Append(acc, c), initial)
         ELSE IF acc # << >>
         THEN NormFold(Tail(comps), DropLast(acc), initial)
         ELSE NormFold(Tail(comps), acc, initial)

\* posixpath.normpath
NormPath(p) ==
    IF p = << >> THEN << "." >>
    ELSE LET initial == IF ~ StartsWith(p, << "/" >>) THEN 0
                        ELSE IF StartsWith(p, << "/", "/" >>)
                                /\ ~ StartsWith(p, << "/", "/", "/" >>)
                        THEN 2 ELSE 1
             res == [n \in 1..initial |-> "/"]
                      \o JoinSlash(NormFold(SplitSlash(p), << >>, initial))
         IN IF res = << >> THEN << "." >> ELSE res

\* posixpath.join(a, b)
PathJoin(a, b) ==
    IF StartsWith(b, << "/" >>) THEN b
    ELSE IF a = << >> \/ EndsWith(a, << "/" >>) THEN a \o b
    ELSE a \o << "/" >> \o b

\* os.path.abspath(p) in working directory d
AbsPath(p, d) ==
    NormPath(IF StartsWith(p, << "/" >>) THEN p ELSE PathJoin(d, p))

\* index of the last "/" of p, 0 if there is none (str.rfind('/') + 1)
RECURSIVE RFindSlash(_)
RFindSlash(p) ==
    IF p = << >> THEN 0
    ELSE IF p[Len(p)] = "/" THEN Len(p)
    ELSE RFindSlash(DropLast(p))

\* os.path.split(p)[0]
SplitHead(p) ==
    LET head == SubSeq(p, 1, RFindSlash(p)) IN
    IF head # << >> /\ head # [n \in 1..Len(head) |-> "/"]
    THEN RStrip(head, "/")
    ELSE head

----------------------------------------------------------------------------
(* The file system the program runs on: directories / , /a , /a/b and    *)
(* regular files /b , /a/a, each given by its components.                  *)

Dirs == {<< >>, << << "a" >> >>, << << "a" >>, << "b" >> >>}

Files == {<< << "b" >> >>, << << "a" >>, << "a" >> >>}

WorkDirs == {<< "/" >>, << "/", "a" >>}

\* the components an absolute path resolves through
Resolve(p) == SelectSeq(SplitSlash(p), LAMBDA c : c # << >>)

\* os.path.isdir
IsDir(p) == StartsWith(p, << "/" >>) /\ Resolve(p) \in Dirs

\* os.path.isfile
IsFile(p) ==
    StartsWith(p, << "/" >>) /\ ~ EndsWith(p, << "/" >>) /\ Resolve(p) \in Files

----------------------------------------------------------------------------
(* The computation of sourcePath and destPath. *)

\* sourcePath = os.path.abspath(args.path.strip())
AbsPathStep ==
    /\ pathPc = "args"
    /\ sourcePath' = AbsPath(Strip(argPath), cwd)
    /\ pathPc' = "select"
    /\ UNCHANGED <<argPath, cwd, destPath>>
    /\ UNCHANGED loopVars

\* the three-way choice of destPath; die() exits with status 1
SelectDest ==
    /\ pathPc = "select"
    /\ IF EndsWith(sourcePath, << "/", "*" >>)
       THEN /\ destPath' = DropLast(sourcePath)
            /\ UNCHANGED sourcePath
            /\ pathPc' = IF IsDir(DropLast(sourcePath)) THEN "done" ELSE "died"
       ELSE IF EndsWith(sourcePath, << "/" >>)
       THEN /\ destPath' = sourcePath
            /\ sourcePath' = DropLast(sourcePath)
            /\ pathPc' = IF IsDir(DropLast(sourcePath)) THEN "done" ELSE "died"
       ELSE /\ UNCHANGED sourcePath
            /\ IF IsDir(sourcePath)
               THEN destPath' = SplitHead(sourcePath) /\ pathPc' = "done"
               ELSE IF IsFile(sourcePath)
               THEN destPath' = sourcePath /\ pathPc' = "done"
               ELSE UNCHANGED destPath /\ pathPc' = "died"
    /\ exitStatus' = IF pathPc' = "died" THEN 1 ELSE exitStatus
    /\ mainPc' = IF pathPc' = "died" THEN "died" ELSE mainPc
    /\ UNCHANGED <<argPath, cwd>>
    /\ UNCHANGED <<hostTotal, processTotal, hostsCopiedTo, i, copies,
                   remaining, h, j, tasks, unfinished, processes, sched, deq,
                   runs, rtns, pills>>

PathInit ==
    /\ hostTotal = 1
    /\ processTotal = 2
    /\ hostsCopiedTo = InitialCopied
    /\ i = 0
    /\ copies = 1
    /\ remaining = 0
    /\ h = 0
    /\ j = 0
    /\ mainPc = "paths"
    /\ tasks = << >>
    /\ unfinished = 0
    /\ processes = << >>
    /\ exitStatus = -1
    /\ sched = << >>
    /\ deq = << >>
    /\ runs = << >>
    /\ rtns = << >>
    /\ pills = 0
    /\ argPath \in Paths
    /\ cwd \in WorkDirs
    /\ sourcePath = << >>
    /\ destPath = << >>
    /\ pathPc = "args"

PathNext == AbsPathStep \/ SelectDest

PathSpec == PathInit /\ [][PathNext]_vars

\* the canonical spellings of the directories other than the root
DirNames == {<< "/" >> \o JoinSlash(d) : d \in Dirs \ {<< >>}}

\* C10: for a source path argument with a trailing slash naming a directory
\* (/a/b/) the computed destination path equals that same path with the
\* trailing slash; for a directory path without trailing slash (/a/b) the
\* computed destination path is its parent (/a).
C10_PathNormalization ==
    pathPc \in {"done", "died"} =>
        \A d \in DirNames :
            /\ argPath = d \o << "/" >> =>
                  pathPc = "done" /\ destPath = d \o << "/" >>
            /\ argPath = d =>
                  pathPc = "done"
                  /\ destPath = << "/" >> \o JoinSlash(DropLast(Resolve(d)))

\* the half of C10 about a directory path without trailing slash
C10_DirectoryGoesToParent ==
    pathPc \in {"done", "died"} =>
        \A d \in DirNames :
            argPath = d =>
                pathPc = "done"
                /\ destPath = << "/" >> \o JoinSlash(DropLast(Resolve(d)))

----------------------------------------------------------------------------
(* Further properties of the planner and of the workers. *)

\* the indices of the tasks created in round r
TasksOf(r) == {k \in DOMAIN sched : sched[k].round = r}

\* C11: in every round the number of pairs scheduled is at most the round's
\* stepSize (the value of copies after clamping to the remaining hosts).
C11_PairsAtMostStep ==
    \A k \in DOMAIN sched :
        Cardinality(TasksOf(sched[k].round)) <= sched[k].step

\* C12: in every round each host index is the source of at most one
\* scheduled pair, so no host performs more than one outgoing transfer per
\* round.
C12_OneTransferPerSource ==
    \A k \in DOMAIN sched :
        \A m \in TasksOf(sched[k].round) :
            m # k => sched[m].src # sched[k].src

C12_Witness ==
    /\ mainPc = "pills"
    /\ Cardinality(TasksOf(i + 1)) >= 2

\* C13: a worker whose unit returned a nonzero status does not terminate
\* abnormally: it clears its ok flag and keeps dequeuing and acknowledging
\* entries without running them until it dequeues a sentinel.
C13_FailedWorkerDrains ==
    \A w \in DOMAIN processes :
        /\ processes[w].pc # "crashed"
        /\ (processes[w].task # 0 /\ rtns[processes[w].task] > 0) =>
              ~ processes[w].ok

\* a worker process that has stopped, normally or not
Stopped(w) == processes[w].pc \in {"exited", "crashed"}

\* C14: the next round does not begin until every worker started for the
\* round has stopped; no task of another round is queued or executed while
\* the round's workers run, and a round starts with a freshly created queue
\* and no workers.
C14_RoundBarrier ==
    /\ mainPc \in {"while", "done"} => \A w \in DOMAIN processes : Stopped(w)
    /\ (mainPc = "for" /\ h = 0) => (tasks = << >> /\ processes = << >>)
    /\ mainPc \in {"for", "pills", "join"} =>
          /\ \A n \in DOMAIN tasks :
                tasks[n].kind = "task" => sched[tasks[n].id].round = i + 1
          /\ \A w \in DOMAIN processes :
                processes[w].pc = "run" => sched[processes[w].task].round = i + 1

C14_Witness ==
    /\ mainPc = "while"
    /\ i = 1
    /\ Len(processes) >= 2
    /\ \E w \in DOMAIN processes : processes[w].pc = "exited"

\* the sentinels of a round: none while units are being put, one for each
\* worker once all are put, and all of them behind the round's units
SentinelsMatchWorkers ==
    /\ mainPc = "for" => pills = 0
    /\ mainPc = "pills" => (pills = j /\ pills <= Len(processes))
    /\ mainPc = "join" => pills = Len(processes)
    /\ \A n \in DOMAIN tasks : \A m \in DOMAIN tasks :
          (n < m /\ tasks[n].kind = "None") => tasks[m].kind = "None"

\* a worker stops exactly by dequeuing and acknowledging one sentinel, and a
\* worker that has stopped that way takes nothing more from the queue
SentinelStopsWorker ==
    \A w \in DOMAIN processes :
        w \in DOMAIN processes' =>
            /\ (processes[w].pc # "exited" /\ processes'[w].pc = "exited") =>
                  /\ processes[w].pc = "get"
                  /\ tasks # << >>
                  /\ Head(tasks) = Pill
                  /\ tasks' = Tail(tasks)
                  /\ unfinished' = unfinished - 1
            /\ (processes[w].pc = "exited" /\ mainPc' # "for") =>
                  processes'[w] = processes[w]

\* C15: in every round the number of sentinels enqueued equals the number of
\* workers started for the round, all sentinels are enqueued after all of the
\* round's units, and a worker that dequeues a sentinel acknowledges it and
\* stops without dequeuing anything further.
C15_OneSentinelPerWorker ==
    [] SentinelsMatchWorkers /\ [][SentinelStopsWorker]_vars

C15_Witness ==
    /\ mainPc = "join"
    /\ pills >= 2
    /\ \E w \in DOMAIN processes : processes[w].pc = "exited"
    /\ \E w \in DOMAIN processes : processes[w].pc = "get"
    /\ \E n \in DOMAIN tasks : tasks[n].kind = "None"

Min(a, b) == IF a < b THEN a ELSE b

\* the workers started so far in the round against the pairs scheduled so far
WorkersMatchPairs ==
    mainPc \in {"for", "pills", "join"} =>
        /\ Len(processes) = Min(processTotal, Cardinality(TasksOf(i + 1)))
        /\ Cardinality(TasksOf(i + 1)) >= 1 => Len(processes) >= 1

\* C16: in every round the number of workers started equals
\* min(processTotal, number of pairs scheduled in that round), processTotal
\* being fixed once at start; at least one worker exists whenever at least
\* one unit is enqueued.
C16_WorkersAreMinOfTotalAndPairs ==
    [] WorkersMatchPairs /\ [][processTotal' = processTotal]_vars

C16_Witness ==
    /\ mainPc = "join"
    /\ Cardinality(TasksOf(i + 1)) > processTotal
    /\ Len(processes) = processTotal

\* the counter stays within the roster, and the loop body is entered only
\* with hosts remaining
CounterInRange ==
    /\ 1 <= hostsCopiedTo
    /\ hostsCopiedTo <= hostTotal
    /\ mainPc = "done" => hostsCopiedTo = hostTotal
    /\ mainPc \in {"for", "pills", "join"} => remaining >= 1

\* the loop test: the body is entered when hostsCopiedTo < hostTotal and the
\* loop is left when hostsCopiedTo = hostTotal
LoopTest ==
    /\ (mainPc = "while" /\ mainPc' = "for") => hostsCopiedTo < hostTotal
    /\ (mainPc = "while" /\ mainPc' = "done") => hostsCopiedTo = hostTotal

\* C17: in every reachable state of the sync loop
\* 1 <= hostsCopiedTo <= hostTotal, and the loop exits exactly when
\* hostsCopiedTo = hostTotal.
C17_CounterBounded ==
    [] CounterInRange /\ [][LoopTest]_vars

C17_Witness ==
    /\ mainPc = "done"
    /\ i = 1
    /\ hostTotal = MaxHosts
    /\ hostsCopiedTo = hostTotal

\* C18: every round planned while hostsCopiedTo < hostTotal schedules at
\* least one pair, so hostsCopiedTo strictly increases in every round; a
\* round that schedules nothing while hosts remain is unreachable.
C18_EveryRoundMakesProgress ==
    /\ \A r \in 1..i : TasksOf(r) # {}
    /\ mainPc \in {"pills", "join"} =>
          /\ TasksOf(i + 1) # {}
          /\ hostsCopiedTo > hostTotal - remaining

C18_Witness ==
    /\ mainPc = "pills"
    /\ hostTotal = 2
    /\ Cardinality(TasksOf(1)) = 1
    /\ hostsCopiedTo = 2

\* C19: at the loop test that starts a round, copies (before clamping)
\* equals 2^i, i being the number of rounds completed so far (1 before the
\* first round), whatever the clamp did in an earlier round.
C19_StepIsPowerOfTwo ==
    mainPc = "while" => copies = Pow2(i)

C19_Witness ==
    /\ mainPc = "while"
    /\ i = 1
    /\ copies = 2
    /\ hostTotal >= 2

----------------------------------------------------------------------------
(* Termination. *)

\* a step of the main program
MainStep ==
    \/ LoopHead
    \/ ForStep
    \/ ForEnd
    \/ PutPill
    \/ PillsEnd
    \/ Join
    \/ EndRound
    \/ Finish

\* a step of some worker process
WorkerStep == \E w \in 1..(2 * MaxCpu) : WorkerGet(w) \/ WorkerRun(w)

\* the main process runs while it can take a step; the worker processes run
\* while one of them can take a step, and every external command returns.
\* A worker's step stays enabled while the other workers stand still, so this
\* asks no more than the operating system's fair scheduling of each process.
LiveSpec ==
    /\ Init
    /\ [][Next]_vars
    /\ WF_vars(MainStep)
    /\ WF_vars(WorkerStep)

\* C20: for every roster and every assignment of outcomes to the copies,
\* under fair scheduling the wait on each round's workers eventually returns
\* and the program eventually terminates: no worker stays blocked on the
\* queue and the main program does not stay blocked in join.
C20_Terminates ==
    /\ (mainPc = "join") ~> (mainPc = "while")
    /\ <>(mainPc = "done")

C20_Witness ==
    /\ mainPc = "done"
    /\ \E w \in DOMAIN processes : processes[w].pc = "crashed"
    /\ \E w \in DOMAIN processes : processes[w].pc = "exited"
    /\ \E n \in DOMAIN tasks : tasks[n].kind = "None"

====
